---- MODULE Spec2Model ----
(***************************************************************************)
(* Model of backend/main.py: the container lifecycle orchestrator          *)
(* (ContainerManager), the CLI runtime client it drives, the build         *)
(* pipeline, the deployment history and the periodic cleanup task.         *)
(*                                                                         *)
(* The server is one asyncio event loop.  A handler runs without           *)
(* interruption until it awaits something that really suspends; the only   *)
(* such awaits are the two history calls (motor) and the reaper's sleep,   *)
(* because every engine call is a blocking subprocess.run.  Each action    *)
(* below is therefore one uninterrupted stretch of a handler.              *)
(*                                                                         *)
(* A stretch is an operator from the state it starts in (and the outcomes  *)
(* of the external calls it makes) to the state it leaves, the response it *)
(* gives and the external calls it made; the action takes the state.      *)
(***************************************************************************)
EXTENDS Integers, Sequences, FiniteSets, TLC

VARIABLES
    docker_client,      \* TRUE: a DockerCLIClient, FALSE: None (main.py:399-409)
    active_containers,  \* ContainerManager.active_containers, a dict in insertion order
    engine,             \* the engine's containers: id -> [app, state]
    next_id,            \* the next container id the engine hands out
    history,            \* db.deployments, in insertion order
    workspaces,         \* build directories that exist on disk
    now,                \* datetime.now(), in minutes
    pending,            \* user requests suspended in a history call
    reaper,             \* cleanup_task: where it is and its inactive_apps list
    call,               \* a Runtime Client operation taken on its own: its invocation
    returned            \* and what it returned or raised

vars == <<docker_client, active_containers, engine, next_id, history,
          workspaces, now, pending, reaper, call, returned>>

----------------------------------------------------------------------------
(* Bounds of the model *)

MaxTime == 30
TickMinutes == 15
MaxContainers == 2
MaxBuilds == 1
MaxPending == 1

(* Program constants *)

IdleMinutes == 15

Apps == {"demo", "blog"}
(* A repository is the sequence of the segments its name has between "/" *)
Repos == {<<"org", "img">>, <<"localhost", "img">>, <<"img">>}
PUBLIC_HOST == "91.99.196.35"
NoTime == -1

----------------------------------------------------------------------------
(* Python dict, kept as the sequence of its items in insertion order *)

Has(reg, app) == \E i \in 1..Len(reg) : reg[i].app_name = app

IndexOf(reg, app) == CHOOSE i \in 1..Len(reg) : reg[i].app_name = app

Get(reg, app) == reg[IndexOf(reg, app)]

Put(reg, rec) ==
    IF Has(reg, rec.app_name)
    THEN [reg EXCEPT ![IndexOf(reg, rec.app_name)] = rec]
    ELSE Append(reg, rec)

Del(reg, app) == SelectSeq(reg, LAMBDA r : r.app_name # app)

Keys(reg) == {reg[i].app_name : i \in 1..Len(reg)}

----------------------------------------------------------------------------
(* The mutable state a handler works on, and what a stretch of it yields. *)
(* A response with code 200 is a returned body, code 0 a handler that is   *)
(* suspended (or a task that has no caller), anything else an              *)
(* HTTPException.                                                          *)

State ==
    [reg |-> active_containers, eng |-> engine, next_id |-> next_id,
     hist |-> history, ws |-> workspaces, pending |-> pending, reaper |-> reaper]

Resp(code, status, url, cause) ==
    [code |-> code, status |-> status, url |-> url, cause |-> cause]

Awaiting == Resp(0, "awaiting", <<>>, <<>>)

Result(s, response, calls) == [st |-> s, response |-> response, calls |-> calls]

----------------------------------------------------------------------------
(* The engine, as the CLI sees it.  A call ends "ok" (exit 0), "fail"      *)
(* (non-zero exit) or "timeout" (subprocess.TimeoutExpired).  A call that  *)
(* timed out was killed on the client side only: the engine may or may not *)
(* have carried it out (eff).                                              *)

Outcome(out, eff) == [out |-> out, eff |-> eff]

Outcomes ==
    {Outcome("ok", TRUE), Outcome("fail", FALSE),
     Outcome("timeout", FALSE), Outcome("timeout", TRUE)}

(* Calls whose effect on the engine is not modelled (pull, clone, build) *)
Exits == {Outcome("ok", TRUE), Outcome("fail", FALSE), Outcome("timeout", FALSE)}

NotCalled == Outcome("none", FALSE)

EngineRun(eng, id, app, o) ==
    [ok |-> o.out = "ok", out |-> o.out,
     eng |-> IF o.eff
             THEN [c \in DOMAIN eng \cup {id} |->
                     IF c = id THEN [app |-> app, state |-> "running"] ELSE eng[c]]
             ELSE eng]

EngineStop(eng, id, o) ==
    IF id \notin DOMAIN eng
    THEN [ok |-> FALSE, out |-> "fail", eng |-> eng]
    ELSE [ok |-> o.out = "ok", out |-> o.out,
          eng |-> IF o.eff THEN [eng EXCEPT ![id].state = "exited"] ELSE eng]

EngineRemove(eng, id, o) ==
    IF id \notin DOMAIN eng \/ eng[id].state = "running"
    THEN [ok |-> FALSE, out |-> "fail", eng |-> eng]
    ELSE [ok |-> o.out = "ok", out |-> o.out,
          eng |-> IF o.eff THEN [c \in DOMAIN eng \ {id} |-> eng[c]] ELSE eng]

(* ContainerCLI.ports.  What "docker port" prints is a sequence of lines,   *)
(* a line a sequence of tokens: the separators " -> " and ":" are tokens   *)
(* of their own and no other token contains one.  The dict returned is     *)
(* kept as its items in insertion order.                                   *)

Arrow == " -> "
Colon == ":"

RECURSIVE Join(_)
Join(tokens) == IF tokens = <<>> THEN "" ELSE Head(tokens) \o Join(Tail(tokens))

(* str.split(sep) *)
RECURSIVE Split(_, _)
Split(line, sep) ==
    IF \A k \in 1..Len(line) : line[k] # sep
    THEN <<line>>
    ELSE LET k == CHOOSE i \in 1..Len(line) :
                    line[i] = sep /\ \A j \in 1..(i - 1) : line[j] # sep
         IN <<SubSeq(line, 1, k - 1)>> \o Split(SubSeq(line, k + 1, Len(line)), sep)

(* str.split(sep, 1) of a string that contains sep: the cut at the first sep *)
SplitOnce(line, sep) ==
    LET k == CHOOSE i \in 1..Len(line) :
                line[i] = sep /\ \A j \in 1..(i - 1) : line[j] # sep
    IN <<SubSeq(line, 1, k - 1), SubSeq(line, k + 1, Len(line))>>

(* str.rsplit(sep, 1) of a string that contains sep *)
RSplit(line, sep) ==
    LET k == CHOOSE i \in 1..Len(line) :
                line[i] = sep /\ \A j \in (i + 1)..Len(line) : line[j] # sep
    IN <<SubSeq(line, 1, k - 1), SubSeq(line, k + 1, Len(line))>>

PortEntry(key, ip, port) == [key |-> key, HostPort |-> port, HostIp |-> ip]

(* ports[container_port] = [...] *)
PutPort(dict, e) ==
    IF \E i \in 1..Len(dict) : dict[i].key = e.key
    THEN [i \in 1..Len(dict) |-> IF dict[i].key = e.key THEN e ELSE dict[i]]
    ELSE Append(dict, e)

ParseLine(parts) ==
    LET host_mapping == parts[2]
    IN IF \E k \in 1..Len(host_mapping) : host_mapping[k] = Colon
       THEN PortEntry(Join(parts[1]), Join(RSplit(host_mapping, Colon)[1]),
                      Join(RSplit(host_mapping, Colon)[2]))
       ELSE PortEntry(Join(parts[1]), Join(host_mapping), "")

RECURSIVE ParseLines(_, _)
ParseLines(lines, dict) ==
    IF lines = <<>> THEN dict
    ELSE LET line == Head(lines)
             parts == Split(line, Arrow)
         IN IF line # <<>> /\ Len(parts) = 2
            THEN ParseLines(Tail(lines), PutPort(dict, ParseLine(parts)))
            ELSE ParseLines(Tail(lines), dict)

(* A failed or timed-out "docker port" gives the empty dict. *)
ports(o, stdout) == IF o.out = "ok" THEN ParseLines(stdout, <<>>) ELSE <<>>

PortLine(key, host) == <<key, Arrow>> \o host

PortStdouts ==
    { <<>>,
      <<PortLine("8000/tcp", <<"0.0.0.0">>),
        PortLine("8001/tcp", <<"0.0.0.0", Colon, "49200">>)>>,
      <<PortLine("8000/tcp", <<"0.0.0.0", Colon, "49200">>),
        PortLine("8001/tcp", <<"0.0.0.0", Colon, "49201">>)>> }

PortOutputs == {ports(o, stdout) : o \in Exits, stdout \in PortStdouts}

(* the loop of lines 582-585 as it would be without its test of HostPort *)
FirstHostPortAny(mapping) ==
    IF mapping = <<>> THEN "" ELSE Head(mapping).HostPort

RECURSIVE FirstHostPort(_)
FirstHostPort(mapping) ==
    IF mapping = <<>> THEN ""
    ELSE IF Head(mapping).HostPort # "" THEN Head(mapping).HostPort
    ELSE FirstHostPort(Tail(mapping))

----------------------------------------------------------------------------
(* The Runtime Client's operations taken on their own.  An invocation      *)
(* (subprocess.run) ends "ok" (exit 0), "fail" (non-zero exit, with the    *)
(* text it wrote to stderr) or "timeout" (TimeoutExpired); version and     *)
(* list make a second invocation when the first exits non-zero or prints   *)
(* nothing they can parse ("unparsed").  An operation returns a value or   *)
(* raises Exception(message); a message is the sequence of the texts it is *)
(* made of.                                                                *)

Raise(message) == [done |-> TRUE, raised |-> TRUE, value |-> message]

Return(value) == [done |-> TRUE, raised |-> FALSE, value |-> value]

TimedOut == "timed out"

(* try: subprocess.run; if returncode != 0: raise Exception(prefix: stderr) *)
(* except Exception as e: raise Exception(prefix: e)                       *)
Invoke(prefix, out, stderr, value) ==
    IF out = "ok" THEN Return(value)
    ELSE IF out = "fail" THEN Raise(<<prefix, prefix, stderr>>)
    ELSE Raise(<<prefix, TimedOut>>)

DockerCLIClient_version(c) ==
    IF c.first = "timeout" THEN Raise(<<"Failed to get Docker version", TimedOut>>)
    ELSE IF c.first = "ok" THEN Return(<<"json">>)
    ELSE IF c.second = "ok" THEN Return(<<"text">>)
    ELSE IF c.second = "fail"
    THEN Raise(<<"Failed to get Docker version", "Docker version failed", c.stderr>>)
    ELSE Raise(<<"Failed to get Docker version", TimedOut>>)

ContainerManagerCLI_run(c) ==
    Invoke("Failed to run container", c.first, c.stderr, <<"container">>)

ContainerManagerCLI_list(c) ==
    IF c.first = "timeout" THEN Raise(<<"Failed to list containers", TimedOut>>)
    ELSE IF c.first = "ok" THEN Return(<<"json">>)
    ELSE Invoke("Failed to list containers", c.second, c.stderr, <<"table">>)

ContainerCLI_stop(c) ==
    Invoke("Failed to stop container", c.first, c.stderr, <<"None">>)

ContainerCLI_remove(c) ==
    Invoke("Failed to remove container", c.first, c.stderr, <<"None">>)

ImageManagerCLI_pull(c) ==
    Invoke("Failed to pull image", c.first, c.stderr, <<"None">>)

ContainerCLI_ports(c) == Return(ports(Outcome(c.first, FALSE), c.stdout))

ClientOps == {"version", "pull", "run", "list", "stop", "remove", "ports"}

Apply(c) ==
    CASE c.op = "version" -> DockerCLIClient_version(c)
      [] c.op = "pull" -> ImageManagerCLI_pull(c)
      [] c.op = "run" -> ContainerManagerCLI_run(c)
      [] c.op = "list" -> ContainerManagerCLI_list(c)
      [] c.op = "stop" -> ContainerCLI_stop(c)
      [] c.op = "remove" -> ContainerCLI_remove(c)
      [] c.op = "ports" -> ContainerCLI_ports(c)

(* The inputs: what docker port can print, what stderr can hold *)

PortLines ==
    { <<>>,
      <<"garbage">>,
      PortLine("8000/tcp", <<"0.0.0.0", Colon, "49153">>),
      PortLine("8000/tcp", <<"0.0.0.0">>),
      PortLine("8000/tcp", <<Colon, Colon, Colon, "49153">>),
      PortLine("8000/tcp", <<"0.0.0.0", Colon>>),
      PortLine("8001/udp", <<"127.0.0.1", Colon, "49154">>),
      PortLine("8000/tcp", <<"0.0.0.0", Arrow, "49153">>) }

PortInputs == {<<>>} \cup {<<l>> : l \in PortLines} \cup (PortLines \X PortLines)

Stderrs == {"No such container", "permission denied"}

Call(op, first, second, stderr, stdout) ==
    [op |-> op, first |-> first, second |-> second, stderr |-> stderr,
     stdout |-> stdout]

NoCall == Call("none", "none", "none", "", <<>>)

NotReturned == [done |-> FALSE, raised |-> FALSE, value |-> <<>>]

ClientCalls ==
    {Call(op, "ok", "none", "", <<>>) : op \in ClientOps \ {"ports"}}
    \cup {Call(op, "timeout", "none", "", <<>>) : op \in ClientOps}
    \cup {Call(op, "fail", "none", e, <<>>) :
             op \in ClientOps \ {"version", "list"}, e \in Stderrs}
    \cup {Call("ports", "ok", "none", "", out) : out \in PortInputs}
    \cup {Call(op, first, second, "", <<>>) :
             op \in {"version", "list"}, first \in {"fail", "unparsed"},
             second \in {"ok", "timeout"}}
    \cup {Call(op, first, "fail", e, <<>>) :
             op \in {"version", "list"}, first \in {"fail", "unparsed"},
             e \in Stderrs}

----------------------------------------------------------------------------
(* History (db.deployments).  Both calls swallow a failure of the store.   *)
(* The entry's repository is written and never read by any operation, and  *)
(* is left out.                                                            *)

HistoryEntry(app, cid, port, at) ==
    [app_name |-> app, container_id |-> cid, host_port |-> port,
     started_at |-> at, stopped_at |-> NoTime, status |-> "running"]

IsOpen(h, app) == h.app_name = app /\ h.stopped_at = NoTime

save_deployment_history(hist, entry, accepted) ==
    IF accepted THEN Append(hist, entry) ELSE hist

(* update_deployment_stop with the update lost: what the history would be if *)
(* a stop never closed its entry                                            *)
update_deployment_stop_lost(hist, app, stopped_at, accepted) == hist

update_deployment_stop(hist, app, stopped_at, accepted) ==
    IF accepted /\ \E i \in 1..Len(hist) : IsOpen(hist[i], app)
    THEN LET i == CHOOSE k \in 1..Len(hist) :
                    /\ IsOpen(hist[k], app)
                    /\ \A j \in 1..(k - 1) : ~IsOpen(hist[j], app)
         IN [hist EXCEPT ![i].stopped_at = stopped_at, ![i].status = "stopped"]
    ELSE hist

----------------------------------------------------------------------------
(* ContainerManager *)

(* the test as it would be without the exclusion of localhost/ *)
IsPublicAnySlash(repo) == Len(repo) > 1

(* "/" in repository and not repository.startswith("localhost/") *)
IsPublic(repo) == Len(repo) > 1 /\ repo[1] # "localhost"

pull_image(o) == docker_client /\ o.out = "ok"

NewDir(ws) == CHOOSE d \in 1..(Cardinality(ws) + 1) : d \notin ws

(* _build_from_github as it would be without the check of clone's exit *)
build_from_github_unchecked(ws, app, clone, build) ==
    LET dir == NewDir(ws)
    IN IF build.out # "ok"
       THEN [ok |-> FALSE, cause |-> <<"build", build.out>>, ws |-> ws \cup {dir},
             dir |-> dir, image |-> <<>>, calls |-> <<"clone", "build">>]
       ELSE [ok |-> TRUE, cause |-> <<>>, ws |-> ws,
             dir |-> dir, image |-> <<"ai-playground", app>>,
             calls |-> <<"clone", "build">>]

build_from_github(ws, app, clone, build) ==
    LET dir == NewDir(ws)
    IN IF clone.out # "ok"
       THEN [ok |-> FALSE, cause |-> <<"clone", clone.out>>, ws |-> ws \cup {dir},
             dir |-> dir, image |-> <<>>, calls |-> <<"clone">>]
       ELSE IF build.out # "ok"
       THEN [ok |-> FALSE, cause |-> <<"build", build.out>>, ws |-> ws \cup {dir},
             dir |-> dir, image |-> <<>>, calls |-> <<"clone", "build">>]
       ELSE [ok |-> TRUE, cause |-> <<>>, ws |-> ws,
             dir |-> dir, image |-> <<"ai-playground", app>>,
             calls |-> <<"clone", "build">>]

(* get_app_status as it would be if get asked the engine for the container *)
(* and nothing caught its failure                                          *)
get_app_status_uncaught(s, app) ==
    IF Has(s.reg, app)
    THEN IF Get(s.reg, app).container_id \in DOMAIN s.eng
         THEN Result(s, Resp(200, "running",
                             <<"localhost", Get(s.reg, app).host_port>>, <<>>), <<>>)
         ELSE Result(s, Resp(500, "Internal Server Error", <<>>, <<"get">>), <<"inspect">>)
    ELSE Result(s, Resp(200, "stopped", <<>>, <<>>), <<>>)

get_app_status(s, app) ==
    IF Has(s.reg, app)
    THEN IF docker_client
         THEN Result(s, Resp(200, "running",
                             <<"localhost", Get(s.reg, app).host_port>>, <<>>), <<>>)
         ELSE Result([s EXCEPT !.reg = Del(s.reg, app)],
                     Resp(200, "stopped", <<>>, <<>>), <<>>)
    ELSE Result(s, Resp(200, "stopped", <<>>, <<>>), <<>>)

(* update_last_accessed with the write lost *)
update_last_accessed_lost(s, app) == s

(* update_last_accessed as it would be if a touch restarted the record *)
update_last_accessed_restart(s, app) ==
    IF Has(s.reg, app)
    THEN [s EXCEPT !.reg[IndexOf(s.reg, app)].last_accessed = now,
                   !.reg[IndexOf(s.reg, app)].started_at = now]
    ELSE s

(* update_last_accessed as it would be if it wrote the time of the last tick *)
update_last_accessed_rewound(s, app) ==
    IF Has(s.reg, app)
    THEN [s EXCEPT !.reg[IndexOf(s.reg, app)].last_accessed = now - TickMinutes]
    ELSE s

(* update_last_accessed as it would be if it touched every record *)
update_last_accessed_every(s, app) ==
    IF Has(s.reg, app)
    THEN [s EXCEPT !.reg = [i \in 1..Len(s.reg) |->
                               [s.reg[i] EXCEPT !.last_accessed = now]]]
    ELSE s

update_last_accessed(s, app) ==
    IF Has(s.reg, app)
    THEN [s EXCEPT !.reg[IndexOf(s.reg, app)].last_accessed = now]
    ELSE s

Record(app, cid, port, t) ==
    [app_name |-> app, container_id |-> cid, container_name |-> <<app, t>>,
     host_port |-> port, started_at |-> t, last_accessed |-> t]

Suspended(kind, app, cid, port, at) ==
    [kind |-> kind, app_name |-> app, container_id |-> cid, host_port |-> port,
     at |-> at]

(* deploy_app up to its await of save_deployment_history (lines 507-611) *)
deploy_app(s, app, repo, ch) ==
    LET pulled == pull_image(ch.pull)
        needs_build == IsPublic(repo) /\ ~pulled
        b == build_from_github(s.ws, app, ch.clone, ch.build)
        s1 == IF needs_build THEN [s EXCEPT !.ws = b.ws] ELSE s
        calls1 == <<"pull">> \o (IF needs_build THEN b.calls ELSE <<>>)
        r == EngineRun(s.eng, s.next_id, app, ch.run)
        s2 == [s1 EXCEPT !.eng = r.eng,
                         !.next_id = IF s.next_id \in DOMAIN r.eng
                                     THEN s.next_id + 1 ELSE s.next_id]
        host_port == FirstHostPort(ports(ch.port, ch.stdout))
    IN IF ~pulled /\ ~needs_build
       THEN Result(s1, Resp(500, "Deployment failed", <<>>, <<"pull", ch.pull.out>>),
                   calls1)
       ELSE IF needs_build /\ ~b.ok
       THEN Result(s1, Resp(500, "Deployment failed", <<>>, b.cause), calls1)
       ELSE IF ~r.ok
       THEN Result(s2, Resp(500, "Deployment failed", <<>>, <<"run", r.out>>),
                   calls1 \o <<"run">>)
       ELSE Result([s2 EXCEPT
                       !.reg = Put(s.reg, Record(app, s.next_id, host_port, now)),
                       !.pending = s.pending \cup
                           {Suspended("deploy", app, s.next_id, host_port, now)}],
                   Awaiting, calls1 \o <<"run", "port">>)

(* deploy_app's resumption as it would be if save_deployment_history let   *)
(* the store's exception through: deploy_app's handler turns it into 500   *)
deploy_app_resume_fatal(s, p, accepted) ==
    IF accepted
    THEN Result([s EXCEPT !.hist = Append(s.hist,
                                      HistoryEntry(p.app_name, p.container_id,
                                                   p.host_port, p.at)),
                          !.pending = s.pending \ {p}],
                Resp(200, "success", <<PUBLIC_HOST, p.host_port>>, <<>>), <<>>)
    ELSE Result([s EXCEPT !.pending = s.pending \ {p}],
                Resp(500, "Deployment failed", <<>>, <<"history">>), <<>>)

(* deploy_app from the return of save_deployment_history (lines 611-627) *)
deploy_app_resume(s, p, accepted) ==
    Result([s EXCEPT !.hist = save_deployment_history(s.hist,
                                  HistoryEntry(p.app_name, p.container_id,
                                               p.host_port, p.at),
                                  accepted),
                     !.pending = s.pending \ {p}],
           Resp(200, "success", <<PUBLIC_HOST, p.host_port>>, <<>>), <<>>)

(* stop_app as it would be with the record deleted before the history call *)
stop_app_delete_first(s, app, ch) ==
    IF ~Has(s.reg, app)
    THEN Result(s, Resp(500, "Stop failed", <<>>, <<"404: App not found">>), <<>>)
    ELSE IF ~docker_client
    THEN Result(s, Resp(500, "Stop failed", <<>>, <<"client">>), <<>>)
    ELSE LET cid == Get(s.reg, app).container_id
             st == EngineStop(s.eng, cid, ch.stop)
             rm == EngineRemove(st.eng, cid, ch.remove)
         IN IF ~st.ok
            THEN Result([s EXCEPT !.eng = st.eng, !.reg = Del(s.reg, app)],
                        Resp(500, "Stop failed", <<>>, <<"stop", st.out>>), <<"stop">>)
            ELSE Result([s EXCEPT !.eng = rm.eng, !.reg = Del(s.reg, app)],
                        IF rm.ok THEN Awaiting
                        ELSE Resp(500, "Stop failed", <<>>, <<"rm", rm.out>>),
                        <<"stop", "rm">>)

(* stop_app up to its await of update_deployment_stop (lines 705-746) *)
stop_app(s, app, ch) ==
    IF ~Has(s.reg, app)
    THEN Result(s, Resp(500, "Stop failed", <<>>, <<"404: App not found">>), <<>>)
    ELSE IF ~docker_client
    THEN Result(s, Resp(500, "Stop failed", <<>>, <<"client">>), <<>>)
    ELSE LET cid == Get(s.reg, app).container_id
             st == EngineStop(s.eng, cid, ch.stop)
             rm == EngineRemove(st.eng, cid, ch.remove)
         IN IF ~st.ok
            THEN Result([s EXCEPT !.eng = st.eng],
                        Resp(500, "Stop failed", <<>>, <<"stop", st.out>>), <<"stop">>)
            ELSE IF ~rm.ok
            THEN Result([s EXCEPT !.eng = rm.eng],
                        Resp(500, "Stop failed", <<>>, <<"rm", rm.out>>),
                        <<"stop", "rm">>)
            ELSE Result([s EXCEPT !.eng = rm.eng], Awaiting, <<"stop", "rm">>)

(* stop_app from the return of update_deployment_stop (lines 746-759) *)
stop_app_resume(s, app, at, accepted) ==
    LET h == update_deployment_stop(s.hist, app, at, accepted)
    IN IF Has(s.reg, app)
       THEN Result([s EXCEPT !.hist = h, !.reg = Del(s.reg, app)],
                   Resp(200, "success", <<>>, <<>>), <<>>)
       ELSE Result([s EXCEPT !.hist = h],
                   Resp(500, "Stop failed", <<>>, <<"KeyError">>), <<>>)

Names(reg) == [i \in 1..Len(reg) |-> reg[i].app_name]

(* the threshold as it would be with an inclusive comparison *)
IsInactiveInclusive(rec, t) == t - rec.last_accessed >= IdleMinutes

IsInactive(rec, t) == t - rec.last_accessed > IdleMinutes

inactive_apps(reg, t) == Names(SelectSeq(reg, LAMBDA rec : IsInactive(rec, t)))

----------------------------------------------------------------------------
(* The outcomes of the external calls one stretch can meet.  A call that   *)
(* is not made has outcome NotCalled.                                      *)

RunChoices ==
    {c \in [run : Outcomes, port : Exits \cup {NotCalled}, stdout : PortStdouts] :
        /\ (c.port = NotCalled) = (c.run.out # "ok")
        /\ c.port.out # "ok" => c.stdout = <<>>}

BuildChoices ==
    {c \in [clone : Exits, build : Exits \cup {NotCalled}] :
        (c.build = NotCalled) = (c.clone.out # "ok")}

NoBuild == [clone |-> NotCalled, build |-> NotCalled]

NoRun == [run |-> NotCalled, port |-> NotCalled, stdout |-> <<>>]

Choice(pull, b, r) ==
    [pull |-> pull, clone |-> b.clone, build |-> b.build, run |-> r.run,
     port |-> r.port, stdout |-> r.stdout]

DeployChoices ==
    {Choice(Outcome("ok", TRUE), NoBuild, r) : r \in RunChoices}
    \cup {Choice(p, NoBuild, NoRun) : p \in Exits \ {Outcome("ok", TRUE)}}

DeployBuildChoices ==
    {Choice(Outcome("ok", TRUE), NoBuild, r) : r \in RunChoices}
    \cup {Choice(p, b, NoRun) :
            p \in Exits \ {Outcome("ok", TRUE)},
            b \in {c \in BuildChoices : c.build.out # "ok"}}
    \cup {Choice(p, b, r) :
            p \in Exits \ {Outcome("ok", TRUE)},
            b \in {c \in BuildChoices : c.build.out = "ok"},
            r \in RunChoices}

ChoicesFor(repo) == IF IsPublic(repo) THEN DeployBuildChoices ELSE DeployChoices

NoChoice == Choice(NotCalled, NoBuild, NoRun)

StopChoices ==
    {c \in [stop : Outcomes, remove : Outcomes \cup {NotCalled}] :
        (c.remove = NotCalled) = (c.stop.out # "ok")}

NoStop == [stop |-> NotCalled, remove |-> NotCalled]

(* What deploy, stop and the reaper's loop can meet in state s *)

DeployMeets(s, app, repo) ==
    IF docker_client /\ ~Has(s.reg, app) THEN ChoicesFor(repo) ELSE {NoChoice}

StopMeets(s, app) ==
    IF docker_client /\ Has(s.reg, app) THEN StopChoices ELSE {NoStop}

ReapMeets(s, list, i) ==
    IF i <= Len(list) THEN StopMeets(s, list[i]) ELSE {NoStop}

----------------------------------------------------------------------------
(* Routes *)

Unavailable == Resp(500, "Docker not available", <<>>, <<>>)

(* the deploy route as it would be without its status check *)
deploy_app_route_unchecked(s, app, repo, ch) ==
    IF ~docker_client
    THEN Result(s, Unavailable, <<>>)
    ELSE deploy_app(s, app, repo, ch)

(* the deploy route as it would be without its availability check *)
deploy_app_route_unguarded(s, app, repo, ch) ==
    LET status == get_app_status(s, app)
    IN IF status.response.status = "running"
       THEN Result(status.st,
                   Resp(200, "already_running", status.response.url, <<>>), <<>>)
       ELSE deploy_app(status.st, app, repo, ch)

deploy_app_route(s, app, repo, ch) ==
    IF ~docker_client
    THEN Result(s, Unavailable, <<>>)
    ELSE LET status == get_app_status(s, app)
         IN IF status.response.status = "running"
            THEN Result(status.st,
                        Resp(200, "already_running", status.response.url, <<>>), <<>>)
            ELSE deploy_app(status.st, app, repo, ch)

(* the build route as it would be without its availability check *)
build_image_unguarded(s, app, repo, ch) ==
    LET b == build_from_github(s.ws, app, ch.clone, ch.build)
    IN IF b.ok
       THEN Result([s EXCEPT !.ws = b.ws], Resp(200, "success", b.image, <<>>),
                   b.calls)
       ELSE Result([s EXCEPT !.ws = b.ws], Resp(500, "Build failed", <<>>, b.cause),
                   b.calls)

build_image(s, app, repo, ch) ==
    IF ~docker_client
    THEN Result(s, Unavailable, <<>>)
    ELSE LET b == build_from_github(s.ws, app, ch.clone, ch.build)
         IN IF b.ok
            THEN Result([s EXCEPT !.ws = b.ws], Resp(200, "success", b.image, <<>>),
                        b.calls)
            ELSE Result([s EXCEPT !.ws = b.ws], Resp(500, "Build failed", <<>>, b.cause),
                        b.calls)

stop_app_route(s, app, ch) ==
    LET r == stop_app(s, app, ch)
    IN IF r.response = Awaiting
       THEN [r EXCEPT !.st.pending = s.pending \cup
                {Suspended("stop", app, Get(s.reg, app).container_id, "", now)}]
       ELSE r

stop_app_route_resume(s, p, accepted) ==
    LET r == stop_app_resume(s, p.app_name, p.at, accepted)
    IN [r EXCEPT !.st.pending = s.pending \ {p}]

(* the status route as it would be without its update_last_accessed *)
get_app_status_route_untouched(s, app) == get_app_status(s, app)

get_app_status_route(s, app) == get_app_status(update_last_accessed(s, app), app)

----------------------------------------------------------------------------
(* The periodic reaper: cleanup_task and cleanup_inactive_containers.      *)
(* Nothing in either catches an exception, so a stop_app that raises ends  *)
(* the task ("dead", with the list and the index it died at).              *)

Reaper(pc, list, i, at) == [pc |-> pc, inactive_apps |-> list, i |-> i, at |-> at]

(* The for loop of cleanup_inactive_containers from its i-th item on, up   *)
(* to the next suspension (lines 820-822).                                 *)
reap_from(s, list, i, ch) ==
    IF i > Len(list)
    THEN Result([s EXCEPT !.reaper = Reaper("sleeping", <<>>, 0, 0)],
                Resp(0, "pass done", <<>>, <<>>), <<>>)
    ELSE LET r == stop_app(s, list[i], ch)
         IN IF r.response = Awaiting
            THEN [r EXCEPT !.st.reaper = Reaper("stopping", list, i, now)]
            ELSE [r EXCEPT !.st.reaper = Reaper("dead", list, i, 0)]

(* cleanup_task wakes from its sleep: the scan, then the loop (810-822) *)
cleanup_inactive_containers(s, ch) ==
    reap_from(s, inactive_apps(s.reg, now), 1, ch)

(* the stop_app the loop awaits resumes; then the loop goes on *)
cleanup_resume(s, accepted, ch) ==
    LET list == s.reaper.inactive_apps
        i == s.reaper.i
        r == stop_app_resume(s, list[i], s.reaper.at, accepted)
    IN IF r.response.code = 200
       THEN reap_from(r.st, list, i + 1, ch)
       ELSE [r EXCEPT !.st.reaper = Reaper("dead", list, i, 0)]

----------------------------------------------------------------------------
(* Actions *)

Bounded(s) ==
    /\ s.next_id <= MaxContainers + 1
    /\ Cardinality(s.pending) <= MaxPending
    /\ Cardinality(s.ws) <= MaxBuilds

Take(result) ==
    \E r \in {result} :
        /\ Bounded(r.st)
        /\ active_containers' = r.st.reg
        /\ engine' = r.st.eng
        /\ next_id' = r.st.next_id
        /\ history' = r.st.hist
        /\ workspaces' = r.st.ws
        /\ pending' = r.st.pending
        /\ reaper' = r.st.reaper
        /\ UNCHANGED <<docker_client, now, call, returned>>

Deploy(app, repo) ==
    \E ch \in DeployMeets(State, app, repo) :
        Take(deploy_app_route(State, app, repo, ch))

DeployResume(p) ==
    /\ p.kind = "deploy"
    /\ \E accepted \in BOOLEAN : Take(deploy_app_resume(State, p, accepted))

Build(app, repo) ==
    \E b \in IF docker_client THEN BuildChoices ELSE {NoBuild} :
        Take(build_image(State, app, repo, Choice(NotCalled, b, NoRun)))

Stop(app) ==
    \E ch \in StopMeets(State, app) : Take(stop_app_route(State, app, ch))

StopResume(p) ==
    /\ p.kind = "stop"
    /\ \E accepted \in BOOLEAN : Take(stop_app_route_resume(State, p, accepted))

Status(app) == Take(get_app_status_route(State, app))

ReapWake ==
    /\ reaper.pc = "sleeping"
    /\ \E ch \in ReapMeets(State, inactive_apps(active_containers, now), 1) :
          Take(cleanup_inactive_containers(State, ch))

ReapResume ==
    /\ reaper.pc = "stopping"
    /\ \E accepted \in BOOLEAN :
       \E ch \in ReapMeets([State EXCEPT !.reg = Del(active_containers,
                                  reaper.inactive_apps[reaper.i])],
                           reaper.inactive_apps, reaper.i + 1) :
          Take(cleanup_resume(State, accepted, ch))

(* The environment: the clock, and a container disappearing out-of-band *)

Tick ==
    /\ now + TickMinutes <= MaxTime
    /\ now' = now + TickMinutes
    /\ UNCHANGED <<docker_client, active_containers, engine, next_id, history,
                   workspaces, pending, reaper, call, returned>>

ContainerVanishes(id) ==
    /\ id \in DOMAIN engine
    /\ engine' = [c \in DOMAIN engine \ {id} |-> engine[c]]
    /\ UNCHANGED <<docker_client, active_containers, next_id, history, workspaces,
                   now, pending, reaper, call, returned>>

----------------------------------------------------------------------------

Init ==
    /\ docker_client \in BOOLEAN
    /\ active_containers = <<>>
    /\ engine = <<>>
    /\ next_id = 1
    /\ history = <<>>
    /\ workspaces = {}
    /\ now = 0
    /\ pending = {}
    /\ reaper = Reaper("sleeping", <<>>, 0, 0)
    /\ call = NoCall
    /\ returned = NotReturned

Next ==
    \/ \E app \in Apps, repo \in Repos : Deploy(app, repo)
    \/ \E p \in pending : DeployResume(p)
    \/ \E app \in Apps, repo \in Repos : Build(app, repo)
    \/ \E app \in Apps : Stop(app)
    \/ \E p \in pending : StopResume(p)
    \/ \E app \in Apps : Status(app)
    \/ ReapWake
    \/ ReapResume
    \/ Tick
    \/ \E id \in 1..MaxContainers : ContainerVanishes(id)

Spec == Init /\ [][Next]_vars

(* The Runtime Client alone: an invocation is drawn, the operation runs *)

ClientInit ==
    /\ docker_client = TRUE
    /\ active_containers = <<>>
    /\ engine = <<>>
    /\ next_id = 1
    /\ history = <<>>
    /\ workspaces = {}
    /\ now = 0
    /\ pending = {}
    /\ reaper = Reaper("sleeping", <<>>, 0, 0)
    /\ call \in ClientCalls
    /\ returned = NotReturned

ClientInvoke ==
    /\ ~returned.done
    /\ returned' = Apply(call)
    /\ UNCHANGED <<docker_client, active_containers, engine, next_id, history,
                   workspaces, now, pending, reaper, call>>

ClientNext == ClientInvoke

ClientSpec == ClientInit /\ [][ClientNext]_vars

(* The server with a history store that never refuses a write: every     *)
(* history call returns with its write done.  Two requests can be        *)
(* suspended in their history calls at once.                             *)

MaxStorePending == 2

StoreTake(result) ==
    \E r \in {result} :
        /\ r.st.next_id <= MaxContainers + 1
        /\ Cardinality(r.st.pending) <= MaxStorePending
        /\ Cardinality(r.st.ws) <= MaxBuilds
        /\ active_containers' = r.st.reg
        /\ engine' = r.st.eng
        /\ next_id' = r.st.next_id
        /\ history' = r.st.hist
        /\ workspaces' = r.st.ws
        /\ pending' = r.st.pending
        /\ reaper' = r.st.reaper
        /\ UNCHANGED <<docker_client, now, call, returned>>

StoreDeploy(app, repo) ==
    \E ch \in DeployMeets(State, app, repo) :
        StoreTake(deploy_app_route(State, app, repo, ch))

StoreDeployResume(p) ==
    /\ p.kind = "deploy"
    /\ StoreTake(deploy_app_resume(State, p, TRUE))

StoreStop(app) ==
    \E ch \in StopMeets(State, app) : StoreTake(stop_app_route(State, app, ch))

StoreStopResume(p) ==
    /\ p.kind = "stop"
    /\ StoreTake(stop_app_route_resume(State, p, TRUE))

StoreStatus(app) == StoreTake(get_app_status_route(State, app))

StoreReapWake ==
    /\ reaper.pc = "sleeping"
    /\ \E ch \in ReapMeets(State, inactive_apps(active_containers, now), 1) :
          StoreTake(cleanup_inactive_containers(State, ch))

StoreReapResume ==
    /\ reaper.pc = "stopping"
    /\ \E ch \in ReapMeets([State EXCEPT !.reg = Del(active_containers,
                                  reaper.inactive_apps[reaper.i])],
                           reaper.inactive_apps, reaper.i + 1) :
          StoreTake(cleanup_resume(State, TRUE, ch))

StoreNext ==
    \/ \E app \in Apps, repo \in Repos : StoreDeploy(app, repo)
    \/ \E p \in pending : StoreDeployResume(p)
    \/ \E app \in Apps : StoreStop(app)
    \/ \E p \in pending : StoreStopResume(p)
    \/ \E app \in Apps : StoreStatus(app)
    \/ StoreReapWake
    \/ StoreReapResume
    \/ Tick
    \/ \E id \in 1..MaxContainers : ContainerVanishes(id)

StoreSpec == Init /\ [][StoreNext]_vars

----------------------------------------------------------------------------
(* Vocabulary of the claims *)

Range(seq) == {seq[i] : i \in 1..Len(seq)}

Records(reg) == Range(reg)

Age(rec) == now - rec.last_accessed

RunningFor(eng, app) ==
    {c \in DOMAIN eng : eng[c].app = app /\ eng[c].state = "running"}

OpenEntries(hist, app) == {i \in 1..Len(hist) : IsOpen(hist[i], app)}

EntriesOf(hist, cid) == {i \in 1..Len(hist) : hist[i].container_id = cid}

AllChoices == DeployBuildChoices \cup DeployChoices \cup {NoChoice}

AllStopChoices == StopChoices \cup {NoStop}

(* The host port the engine reports as bound: the first non-empty one *)
Reports(mapping, p) ==
    \E k \in 1..Len(mapping) :
        /\ mapping[k].HostPort = p /\ p # ""
        /\ \A j \in 1..(k - 1) : mapping[j].HostPort = ""

(* The request a stretch has just suspended *)
NewlyPending(before, after) == CHOOSE p \in after.pending : p \notin before.pending

----------------------------------------------------------------------------
C2_StopUnregisteredIsNotFound ==
    \A app \in Apps, ch \in AllStopChoices :
        ~Has(active_containers, app) =>
            LET r == stop_app_route(State, app, ch)
            IN /\ r.response.code = 404
               /\ r.st.reg = active_containers

(* C3: status of a record whose container is no longer in the engine       *)
(* answers stopped and removes the record in that same call.               *)
C3_StatusDeregistersVanished ==
    \A app \in Apps :
        (Has(active_containers, app)
         /\ Get(active_containers, app).container_id \notin DOMAIN engine) =>
            LET r == get_app_status_route(State, app)
            IN /\ r.response.status = "stopped"
               /\ ~Has(r.st.reg, app)

C5_ReapSurvivesStopFailure ==
    reaper.pc = "dead" =>
        \A k \in 1..Len(reaper.inactive_apps) :
            k # reaper.i => ~Has(active_containers, reaper.inactive_apps[k])

(* C6: there are never two running containers for one app, and a stop that *)
(* is about to delete a record always finds it.                            *)
C6_NoTwoContainersNoDoubleDelete ==
    /\ \A app \in Apps : Cardinality(RunningFor(engine, app)) <= 1
    /\ \A p \in pending : p.kind = "stop" => Has(active_containers, p.app_name)
    /\ reaper.pc = "stopping" =>
          Has(active_containers, reaper.inactive_apps[reaper.i])

(* C7: whatever the outcome of clone and build, the directory the build    *)
(* pipeline created is gone when it returns.                               *)
C7_WorkspaceAlwaysRemoved ==
    \A app \in Apps, repo \in Repos, b \in BuildChoices :
        build_image(State, app, repo, Choice(NotCalled, b, NoRun)).st.ws = workspaces

(* C8: end to end.  An app is absent (no record, no history entry still   *)
(* open) and the history store accepts its writes.  A deploy whose engine  *)
(* calls succeed, the engine reporting p as the first bound host port,     *)
(* answers success with the endpoint of p and leaves a record of the app   *)
(* with host_port p, its container running, and exactly one running        *)
(* history entry of the app, the one of that container.  A stop that       *)
(* follows, its engine calls succeeding, answers success and leaves the    *)
(* container out of the engine, that entry stopped, no entry of the app    *)
(* running and the Registry without the app.                               *)
C8_EndToEnd ==
    \A app \in Apps, repo \in Repos :
        \A ch \in ChoicesFor(repo), p \in {"49200", "49201"} :
            LET d == deploy_app_route(State, app, repo, ch)
            IN (/\ docker_client
                /\ ~Has(active_containers, app)
                /\ OpenEntries(history, app) = {}
                /\ d.response = Awaiting
                /\ Reports(ports(ch.port, ch.stdout), p)) =>
               LET d2 == deploy_app_resume(d.st, NewlyPending(State, d.st), TRUE)
                   cid == Get(d2.st.reg, app).container_id
                   running == {i \in 1..Len(d2.st.hist) :
                                  /\ d2.st.hist[i].app_name = app
                                  /\ d2.st.hist[i].status = "running"}
                   ok == Outcome("ok", TRUE)
                   s1 == stop_app_route(d2.st, app, [stop |-> ok, remove |-> ok])
                   s2 == stop_app_route_resume(s1.st, NewlyPending(d2.st, s1.st), TRUE)
               IN /\ d2.response = Resp(200, "success", <<PUBLIC_HOST, p>>, <<>>)
                  /\ Has(d2.st.reg, app)
                  /\ Get(d2.st.reg, app).host_port = p
                  /\ cid \notin DOMAIN engine
                  /\ cid \in DOMAIN d2.st.eng
                  /\ d2.st.eng[cid] = [app |-> app, state |-> "running"]
                  /\ Cardinality(running) = 1
                  /\ \A i \in running :
                        /\ d2.st.hist[i].container_id = cid
                        /\ d2.st.hist[i].host_port = p
                  /\ s1.response = Awaiting
                  /\ s2.response = Resp(200, "success", <<>>, <<>>)
                  /\ cid \notin DOMAIN s2.st.eng
                  /\ ~Has(s2.st.reg, app)
                  /\ Len(s2.st.hist) = Len(d2.st.hist)
                  /\ \A i \in running :
                        /\ s2.st.hist[i].status = "stopped"
                        /\ s2.st.hist[i].stopped_at = now
                        /\ s2.st.hist[i].container_id = cid
                  /\ \A i \in 1..Len(s2.st.hist) :
                        s2.st.hist[i].app_name = app => s2.st.hist[i].status = "stopped"

C8_Witness ==
    /\ pending = {}
    /\ \E i \in 1..Len(history) :
          /\ history[i].status = "stopped"
          /\ history[i].host_port = "49200"
          /\ history[i].stopped_at > history[i].started_at
          /\ history[i].container_id \notin DOMAIN engine
          /\ ~Has(active_containers, history[i].app_name)
          /\ \A j \in 1..Len(history) :
                history[j].app_name = history[i].app_name => j = i

(* C9 as stated: while the client is unavailable, each of deploy, build,   *)
(* stop and status fails with the configuration error, makes no engine     *)
(* call and changes nothing.                                               *)
C9_UnavailableFailsEveryOperation ==
    ~docker_client =>
        \A app \in Apps, repo \in Repos :
            \A r \in {deploy_app_route(State, app, repo, NoChoice),
                       build_image(State, app, repo, NoChoice),
                       stop_app_route(State, app, NoStop),
                       get_app_status_route(State, app)} :
                r.response = Unavailable /\ r.calls = <<>> /\ r.st = State

(* C9, amended: while the client is unavailable the Registry is empty;     *)
(* deploy and build fail with the configuration error; stop fails with     *)
(* the error it gives for a name that has no record and status answers     *)
(* stopped; none of the four makes an engine call or changes anything.     *)
C9_UnavailableFailsDeployAndBuild ==
    ~docker_client =>
        /\ active_containers = <<>>
        /\ engine = <<>>
        /\ \A app \in Apps, repo \in Repos :
              /\ \A ch \in AllChoices :
                    deploy_app_route(State, app, repo, ch)
                        = Result(State, Unavailable, <<>>)
              /\ \A b \in BuildChoices \cup {NoBuild} :
                    build_image(State, app, repo, Choice(NotCalled, b, NoRun))
                        = Result(State, Unavailable, <<>>)
              /\ \A ch \in AllStopChoices :
                    stop_app_route(State, app, ch)
                        = Result(State, Resp(500, "Stop failed", <<>>,
                                             <<"404: App not found">>), <<>>)
              /\ get_app_status_route(State, app)
                    = Result(State, Resp(200, "stopped", <<>>, <<>>), <<>>)

C9_Witness ==
    /\ ~docker_client
    /\ now = MaxTime
    /\ deploy_app_route(State, "demo", <<"org", "img">>, NoChoice).response = Unavailable
    /\ build_image(State, "demo", <<"org", "img">>, NoChoice).response = Unavailable

(* C10: status always returns a body, running or stopped, and makes no     *)
(* engine call, whatever state the engine and the record's container are   *)
(* in; for a name with no record it answers stopped and changes nothing.   *)
C10_StatusNeverRaises ==
    \A app \in Apps :
        LET r == get_app_status_route(State, app)
        IN /\ r.response.code = 200
           /\ r.response.status \in {"running", "stopped"}
           /\ r.calls = <<>>
           /\ r.st.eng = engine
           /\ ~Has(active_containers, app) =>
                 r.response = Resp(200, "stopped", <<>>, <<>>) /\ r.st = State

C10_Witness ==
    /\ \E rec \in Records(active_containers) :
          /\ rec.last_accessed > rec.started_at
          /\ rec.container_id \notin DOMAIN engine
    /\ \E app \in Apps : ~Has(active_containers, app)

----------------------------------------------------------------------------
(* An engine call of a deploy has failed or timed out with no fallback     *)
(* left: run, the port query, a pull of a local image, or a pull and the   *)
(* build that stands in for it.                                            *)
Failed(o) == o.out \in {"fail", "timeout"}

DeployCallFailed(repo, ch) ==
    \/ Failed(ch.run)
    \/ Failed(ch.port)
    \/ Failed(ch.pull) /\ (~IsPublic(repo) \/ Failed(ch.clone) \/ Failed(ch.build))

StopCallFailed(s, app, ch) ==
    LET cid == Get(s.reg, app).container_id
        st == EngineStop(s.eng, cid, ch.stop)
    IN ~st.ok \/ ~EngineRemove(st.eng, cid, ch.remove).ok

(* C11: whenever an engine call of a deploy or of a stop fails or times    *)
(* out, the request ends with an error and the Registry is as it was       *)
(* before the request: no record inserted by the deploy, the record of the *)
(* stop still there and unmodified.                                        *)
C11_FailedCallLeavesRegistry ==
    docker_client =>
        /\ \A app \in Apps, repo \in Repos :
              \A ch \in ChoicesFor(repo) :
                  (~Has(active_containers, app) /\ DeployCallFailed(repo, ch)) =>
                      LET r == deploy_app_route(State, app, repo, ch)
                      IN /\ r.response.code \notin {0, 200}
                         /\ r.st.reg = active_containers
        /\ \A app \in Apps :
              \A ch \in StopChoices :
                  (Has(active_containers, app) /\ StopCallFailed(State, app, ch)) =>
                      LET r == stop_app_route(State, app, ch)
                      IN /\ r.response.code \notin {0, 200}
                         /\ r.st.reg = active_containers

(* C12 as stated: a deploy of an absent app calls pull first; whenever the *)
(* pull fails it goes on to the build pipeline, and the error it ends     *)
(* with, if any, is never the pull's.                                      *)
C12_PullFailureAlwaysBuilds ==
    docker_client =>
        \A app \in Apps, repo \in Repos :
            \A ch \in ChoicesFor(repo) :
                ~Has(active_containers, app) =>
                    LET r == deploy_app_route(State, app, repo, ch)
                    IN /\ r.calls[1] = "pull"
                       /\ Failed(ch.pull) =>
                             /\ Len(r.calls) > 1 /\ r.calls[2] = "clone"
                             /\ r.response.cause # <<"pull", ch.pull.out>>

(* C12, amended: a deploy of an absent app calls pull first.  For a        *)
(* repository owner/name outside localhost/ a failed pull is followed by   *)
(* the build pipeline, the deploy ends with an image error exactly when    *)
(* the pipeline fails, that error is the pipeline's, and after a good      *)
(* build it goes on to run.  For any other image (localhost/..., or a name *)
(* with no "/") a failed pull ends the deploy with the pull's error, with  *)
(* no build and nothing changed.  A good pull is never followed by a       *)
(* build.                                                                  *)
C12_PullThenBuildForPublicOnly ==
    docker_client =>
        \A app \in Apps, repo \in Repos :
            \A ch \in ChoicesFor(repo) :
                ~Has(active_containers, app) =>
                    LET r == deploy_app_route(State, app, repo, ch)
                        public == repo \in {<<"org", "img">>}
                        built == ch.clone.out = "ok" /\ ch.build.out = "ok"
                    IN /\ r.calls[1] = "pull"
                       /\ (Failed(ch.pull) /\ public) =>
                             /\ Len(r.calls) > 1 /\ r.calls[2] = "clone"
                             /\ r.response.cause # <<"pull", ch.pull.out>>
                             /\ built => \E k \in 1..Len(r.calls) : r.calls[k] = "run"
                             /\ ~built =>
                                   /\ r.response.code = 500
                                   /\ r.response.cause[1] \in {"clone", "build"}
                                   /\ r.st.reg = active_containers
                                   /\ \A k \in 1..Len(r.calls) : r.calls[k] # "run"
                       /\ (Failed(ch.pull) /\ ~public) =>
                             /\ r.calls = <<"pull">>
                             /\ r.response = Resp(500, "Deployment failed", <<>>,
                                                  <<"pull", ch.pull.out>>)
                             /\ r.st = State
                       /\ ~Failed(ch.pull) =>
                             /\ Len(r.calls) > 1 /\ r.calls[2] = "run"

C12_Witness ==
    /\ docker_client
    /\ Len(active_containers) = 1
    /\ workspaces # {}
    /\ \E app \in Apps :
          /\ ~Has(active_containers, app)
          /\ deploy_app_route(State, app, <<"org", "img">>,
                 Choice(Outcome("fail", FALSE),
                        [clone |-> Outcome("ok", TRUE), build |-> Outcome("ok", TRUE)],
                        [run |-> Outcome("ok", TRUE), port |-> Outcome("ok", TRUE),
                         stdout |-> <<>>])).response = Awaiting
          /\ deploy_app_route(State, app, <<"localhost", "img">>,
                 Choice(Outcome("timeout", FALSE), NoBuild, NoRun)).response.code = 500

(* C13: a touch of a record (the status route's) that completes before the *)
(* reaper's scan keeps the record out of that pass.  With the scan d       *)
(* minutes after the touch, the pass selects the touched record exactly    *)
(* when d > 15, every record it selects is more than 15 minutes past its   *)
(* last access at the scan, and while d <= 15 whatever the pass does       *)
(* leaves the touched record in the Registry and its container as it was.  *)
C13_TouchBeforeScanWins ==
    (docker_client /\ reaper.pc = "sleeping") =>
        \A app \in Apps, d \in 0..16 :
            Has(active_containers, app) =>
                LET t == get_app_status_route(State, app).st
                    list == inactive_apps(t.reg, now + d)
                    touched == Get(t.reg, app)
                IN /\ touched.last_accessed = now
                   /\ (app \in Range(list)) = (d > 15)
                   /\ \A rec \in Records(t.reg) :
                         (rec.app_name \in Range(list))
                             = ((now + d) - rec.last_accessed > 15)
                   /\ d <= 15 =>
                         \A ch \in AllStopChoices :
                             LET r == reap_from(t, list, 1, ch)
                             IN /\ touched \in Records(r.st.reg)
                                /\ \A c \in DOMAIN engine :
                                      c = touched.container_id =>
                                          /\ c \in DOMAIN r.st.eng
                                          /\ r.st.eng[c] = engine[c]

C13_Witness ==
    /\ reaper.pc = "stopping"
    /\ \E rec \in Records(active_containers) :
          /\ now - rec.started_at > 15
          /\ rec.last_accessed > rec.started_at
          /\ Age(rec) <= 15
          /\ rec.app_name \notin Range(reaper.inactive_apps)

(* C14: when the reaper's pass comes to an idle record whose container is  *)
(* no longer in the engine, the record is removed from the Registry.       *)
C14_ReapRemovesRecordOfMissingContainer ==
    (docker_client /\ reaper.pc = "sleeping") =>
        \A ch \in AllStopChoices :
            LET list == inactive_apps(active_containers, now)
            IN (/\ list # <<>>
                /\ Get(active_containers, list[1]).container_id \notin DOMAIN engine) =>
                   ~Has(cleanup_inactive_containers(State, ch).st.reg, list[1])

----------------------------------------------------------------------------
(* Claims about the Runtime Client alone *)

Arrows(line) == {j \in 1..Len(line) : line[j] = Arrow}

Colons(host) == {j \in 1..Len(host) : host[j] = Colon}

(* the lines of the form "<key> -> <host>", their key and their host part *)
Mapped(out) == {k \in 1..Len(out) : Cardinality(Arrows(out[k])) = 1}

KeyOf(line) == Join(SubSeq(line, 1, (CHOOSE a \in Arrows(line) : TRUE) - 1))

HostOf(line) == SubSeq(line, (CHOOSE a \in Arrows(line) : TRUE) + 1, Len(line))

----------------------------------------------------------------------------
(* C16: a history call that fails changes nothing but the history.  A      *)
(* deploy suspended in save_deployment_history answers success whether the *)
(* store accepts the entry or not, with the same Registry and engine; a    *)
(* stop suspended in update_deployment_stop (a request's or the reaper's)  *)
(* answers success and deletes its record either way.  A refused write     *)
(* leaves the history as it was.                                           *)
C16_HistoryFailureNotFatal ==
    /\ \A p \in pending :
          /\ p.kind = "deploy" =>
                LET f == deploy_app_resume(State, p, FALSE)
                    t == deploy_app_resume(State, p, TRUE)
                IN /\ f.response = Resp(200, "success", <<PUBLIC_HOST, p.host_port>>, <<>>)
                   /\ f.response = t.response
                   /\ f.st.reg = active_containers /\ t.st.reg = active_containers
                   /\ f.st.eng = engine /\ t.st.eng = engine
                   /\ f.st.hist = history
                   /\ [t.st EXCEPT !.hist = history] = f.st
          /\ p.kind = "stop" =>
                LET f == stop_app_route_resume(State, p, FALSE)
                    t == stop_app_route_resume(State, p, TRUE)
                IN /\ f.response = Resp(200, "success", <<>>, <<>>)
                   /\ f.response = t.response
                   /\ f.st.reg = Del(active_containers, p.app_name)
                   /\ f.st.hist = history
                   /\ [t.st EXCEPT !.hist = history] = f.st
    /\ reaper.pc = "stopping" =>
          \A ch \in AllStopChoices :
              LET f == cleanup_resume(State, FALSE, ch)
                  t == cleanup_resume(State, TRUE, ch)
              IN /\ ~Has(f.st.reg, reaper.inactive_apps[reaper.i])
                 /\ f.response = t.response
                 /\ f.calls = t.calls
                 /\ [t.st EXCEPT !.hist = history] = [f.st EXCEPT !.hist = history]

C16_Witness ==
    /\ pending = {}
    /\ reaper.pc = "sleeping"
    /\ \E rec \in Records(active_containers) :
          EntriesOf(history, rec.container_id) = {}
    /\ \E i \in 1..Len(history) :
          /\ history[i].status = "running"
          /\ ~Has(active_containers, history[i].app_name)
          /\ history[i].container_id \notin DOMAIN engine

(* C17: while a stop of the current pass has not returned, the reaper can  *)
(* still begin its next cycle.                                             *)
C17_SlowStopDoesNotBlockNextCycle ==
    reaper.pc = "stopping" => ENABLED ReapWake

(* The outcome of the last invocation an operation made *)
LastOutcome(c) == IF c.second = "none" THEN c.first ELSE c.second

Carries(message, text) == \E k \in 1..Len(message) : message[k] = text

(* C18: every Runtime Client operation whose invocation exits non-zero     *)
(* raises an error that carries the captured stderr, every operation whose *)
(* invocation times out raises a timeout error, and the two differ.        *)
C18_ClientErrorsSurface ==
    returned.done =>
        /\ LastOutcome(call) = "fail" =>
              /\ returned.raised
              /\ Carries(returned.value, call.stderr)
              /\ ~Carries(returned.value, TimedOut)
        /\ LastOutcome(call) = "timeout" =>
              /\ returned.raised
              /\ Carries(returned.value, TimedOut)

----------------------------------------------------------------------------
(* C19: a stop of an app that has a record calls the engine's stop, then,  *)
(* only if that succeeded, its remove, and nothing else.  Up to there the  *)
(* record and the history are as they were.  Only if both succeeded does   *)
(* it go on to the history update, with the container gone from the        *)
(* engine and the record still in place; the record is deleted when the    *)
(* history call has returned, with no further engine call.  If either      *)
(* call failed the stop ends with an error and the record stays.           *)
C19_StopStepOrder ==
    docker_client =>
        \A app \in Apps :
            \A ch \in StopChoices :
                Has(active_containers, app) =>
                    LET cid == Get(active_containers, app).container_id
                        st == EngineStop(engine, cid, ch.stop)
                        rm == EngineRemove(st.eng, cid, ch.remove)
                        r == stop_app_route(State, app, ch)
                    IN /\ r.calls = IF st.ok THEN <<"stop", "rm">> ELSE <<"stop">>
                       /\ r.st.reg = active_containers
                       /\ r.st.hist = history
                       /\ (r.response = Awaiting) = (st.ok /\ rm.ok)
                       /\ r.response # Awaiting =>
                             /\ r.response.code = 500
                             /\ r.st.pending = pending
                       /\ r.response = Awaiting =>
                             /\ cid \notin DOMAIN r.st.eng
                             /\ \A accepted \in BOOLEAN :
                                   LET d == stop_app_route_resume(r.st,
                                                NewlyPending(State, r.st), accepted)
                                   IN /\ ~Has(d.st.reg, app)
                                      /\ d.calls = <<>>
                                      /\ d.st.eng = r.st.eng
                                      /\ d.st.hist = update_deployment_stop(history, app,
                                                           now, accepted)
                                      /\ d.response = Resp(200, "success", <<>>, <<>>)

C19_Witness ==
    \E p \in pending :
        /\ p.kind = "stop"
        /\ Has(active_containers, p.app_name)
        /\ p.container_id \notin DOMAIN engine
        /\ \E i \in 1..Len(history) :
              /\ history[i].container_id = p.container_id
              /\ history[i].status = "running"

----------------------------------------------------------------------------
Identity(rec) ==
    [app_name |-> rec.app_name, container_id |-> rec.container_id,
     container_name |-> rec.container_name, host_port |-> rec.host_port,
     started_at |-> rec.started_at]

OneRecordPerApp ==
    \A i, j \in 1..Len(active_containers) :
        active_containers[i].app_name = active_containers[j].app_name => i = j

RecordsKeepIdentity ==
    \A app \in Apps :
        Has(active_containers, app) /\ Has(active_containers', app) =>
            Identity(Get(active_containers', app)) = Identity(Get(active_containers, app))

(* C20: the Registry never holds two records of one app_name, and no step  *)
(* of a deploy, stop, status, touch or reap changes the app_name,          *)
(* container_id, container_name, host_port or started_at of a record that  *)
(* is in the Registry before and after the step: of such a record only     *)
(* last_accessed can differ.                                               *)
C20_RecordsAreStable == [](OneRecordPerApp) /\ [][RecordsKeepIdentity]_vars

C20_Witness ==
    /\ Len(active_containers) = 2
    /\ \E i \in 1..Len(active_containers) :
          /\ active_containers[i].last_accessed > active_containers[i].started_at
          /\ \E p \in pending : p.app_name = active_containers[i].app_name

----------------------------------------------------------------------------
NeverBeforeStart ==
    \A rec \in Records(active_containers) : rec.last_accessed >= rec.started_at

LastAccessedGrows ==
    \A app \in Apps :
        (/\ Has(active_containers, app)
         /\ Has(active_containers', app)
         /\ Get(active_containers', app).container_id
                = Get(active_containers, app).container_id) =>
            Get(active_containers', app).last_accessed
                >= Get(active_containers, app).last_accessed

(* C21: the clock never going backwards, no record has a last_accessed    *)
(* earlier than its started_at, and no step lowers the last_accessed of a  *)
(* record that is in the Registry before and after it.                     *)
C21_LastAccessedMonotone == [](NeverBeforeStart) /\ [][LastAccessedGrows]_vars

C21_Witness ==
    \E rec \in Records(active_containers) :
        rec.started_at = 0 /\ rec.last_accessed = 2 * TickMinutes

----------------------------------------------------------------------------
(* C22: a touch of an app with a record leaves the state as it was but for *)
(* that record's last_accessed, which is now: every other field of the     *)
(* record, every other record, the engine, the history and the suspended   *)
(* operations are unchanged.  A touch of an app without a record leaves    *)
(* the state as it was.                                                    *)
C22_TouchChangesOnlyLastAccessed ==
    \A app \in Apps :
        LET t == update_last_accessed(State, app)
        IN IF Has(active_containers, app)
           THEN /\ Len(t.reg) = Len(active_containers)
                /\ \A i \in 1..Len(active_containers) :
                      t.reg[i] = IF active_containers[i].app_name = app
                                 THEN [active_containers[i] EXCEPT !.last_accessed = now]
                                 ELSE active_containers[i]
                /\ [t EXCEPT !.reg = active_containers] = State
           ELSE t = State

C22_Witness ==
    /\ Len(active_containers) = 1
    /\ \A rec \in Records(active_containers) : rec.last_accessed < now
    /\ \E app \in Apps : update_last_accessed(State, app) # State
    /\ \E app \in Apps : ~Has(update_last_accessed(State, app).reg, app)

----------------------------------------------------------------------------
Count(calls, name) == Cardinality({k \in 1..Len(calls) : calls[k] = name})

NothingBound(mapping) == \A k \in 1..Len(mapping) : mapping[k].HostPort = ""

PortReadOnceAfterRun ==
    \A app \in Apps, repo \in Repos :
        \A ch \in ChoicesFor(repo) :
            (docker_client /\ ~Has(active_containers, app) /\ ch.run.out = "ok") =>
                LET d == deploy_app_route(State, app, repo, ch)
                    mapping == ports(ch.port, ch.stdout)
                    host_port == Get(d.st.reg, app).host_port
                IN /\ d.response = Awaiting
                   /\ Count(d.calls, "port") = 1
                   /\ SubSeq(d.calls, Len(d.calls) - 1, Len(d.calls)) = <<"run", "port">>
                   /\ \A p \in {"49200", "49201"} :
                         Reports(mapping, p) => host_port = p
                   /\ NothingBound(mapping) => host_port = ""
                   /\ ch.port.out # "ok" => host_port = ""
                   /\ \A accepted \in BOOLEAN :
                         deploy_app_resume(d.st, NewlyPending(State, d.st),
                                           accepted).response
                            = Resp(200, "success", <<PUBLIC_HOST, host_port>>, <<>>)

EmptyPortStaysEmpty ==
    \A app \in Apps :
        (/\ Has(active_containers, app)
         /\ Has(active_containers', app)
         /\ Get(active_containers', app).container_id
                = Get(active_containers, app).container_id
         /\ Get(active_containers, app).host_port = "") =>
            Get(active_containers', app).host_port = ""

(* C23: a deploy whose run succeeded queries the ports once, right after   *)
(* the run, and records the first non-empty HostPort of the mapping it     *)
(* got; with no HostPort bound, or the query failed or timed out, it       *)
(* records the empty string and still answers success; and no step fills   *)
(* in an empty host_port of a record that stays in the Registry.           *)
C23_PortReadOnce == [](PortReadOnceAfterRun) /\ [][EmptyPortStaysEmpty]_vars

C23_Witness ==
    /\ pending = {}
    /\ \E rec \in Records(active_containers) :
          /\ rec.host_port = ""
          /\ rec.container_id \in DOMAIN engine
          /\ rec.last_accessed > rec.started_at
          /\ \E i \in EntriesOf(history, rec.container_id) :
                history[i].host_port = "" /\ history[i].status = "running"

----------------------------------------------------------------------------
(* The stage a build error names: the text "Failed to clone repository" or *)
(* "Failed to build image" of a non-zero exit, or the command that the     *)
(* TimeoutExpired of a timeout names                                       *)
StageOf(response) == response.cause[1]

BuildStages(r, b, app) ==
    /\ r.calls = IF b.clone.out = "ok" THEN <<"clone", "build">> ELSE <<"clone">>
    /\ b.clone.out # "ok" =>
          /\ r.response.code = 500
          /\ StageOf(r.response) = "clone"
    /\ (b.clone.out = "ok" /\ b.build.out # "ok") =>
          /\ r.response.code = 500
          /\ StageOf(r.response) = "build"

(* C24: the build pipeline clones, then builds only if the clone           *)
(* succeeded; a clone or a build that fails or times out ends the pipeline *)
(* with an error that names that stage, through the build route and        *)
(* through a deploy that falls back to building; and the image a           *)
(* successful build returns is the same for every repository, state and    *)
(* time: it depends on the app name only.                                  *)
C24_CloneThenBuild ==
    docker_client =>
        \A app \in Apps, repo \in Repos, b \in BuildChoices :
            LET r == build_image(State, app, repo, Choice(NotCalled, b, NoRun))
            IN /\ BuildStages(r, b, app)
               /\ (b.clone.out = "ok" /\ b.build.out = "ok") =>
                     r.response = Resp(200, "success", <<"ai-playground", app>>, <<>>)
               /\ \A ch \in DeployBuildChoices :
                     (/\ IsPublic(repo)
                      /\ ~Has(active_containers, app)
                      /\ ch.clone = b.clone /\ ch.build = b.build) =>
                         LET d == deploy_app_route(State, app, repo, ch)
                         IN /\ SubSeq(d.calls, 1, 2) = <<"pull", "clone">>
                            /\ BuildStages([d EXCEPT !.calls =
                                               SubSeq(d.calls, 2, Len(r.calls) + 1)],
                                           b, app)

C24_Witness ==
    /\ docker_client
    /\ workspaces # {}
    /\ \E app \in Apps, b \in BuildChoices :
          /\ b.build.out = "timeout"
          /\ StageOf(build_image(State, app, <<"org", "img">>,
                                 Choice(NotCalled, b, NoRun)).response) = "build"

----------------------------------------------------------------------------
(* C25: the reaper never terminates: whatever happened in a pass, a stop   *)
(* that failed or a selected app that a user stop had removed meanwhile,   *)
(* the task is asleep before its next pass or in a pass, never ended.      *)
C25_ReaperNeverTerminates == reaper.pc \in {"sleeping", "stopping"}

----------------------------------------------------------------------------
Quiescent == pending = {} /\ reaper.pc # "stopping"

(* C26: no orphaned containers: whenever no operation is in progress,      *)
(* every container that is in the engine (each was launched by a deploy    *)
(* and has not been removed) is the container of its app's record.         *)
C26_NoOrphans ==
    Quiescent =>
        \A c \in DOMAIN engine :
            /\ Has(active_containers, engine[c].app)
            /\ Get(active_containers, engine[c].app).container_id = c

----------------------------------------------------------------------------
(* A stop of app, a request's or the reaper's, is suspended in its history *)
(* call: it has stopped and removed the container of app's record itself   *)
StopInProgress(app) ==
    \/ \E p \in pending : p.kind = "stop" /\ p.app_name = app
    \/ reaper.pc = "stopping" /\ reaper.inactive_apps[reaper.i] = app

(* C27: while a stop or a reap of an app is between its engine remove and  *)
(* the deletion of the record, so that this program has removed the        *)
(* record's container, a status of the app does not answer running and a   *)
(* deploy of it does not answer already_running.                           *)
C27_RunningMeansNotRemoved ==
    \A app \in Apps :
        StopInProgress(app) =>
            /\ get_app_status_route(State, app).response.status # "running"
            /\ \A repo \in Repos :
                  \A ch \in DeployMeets(State, app, repo) :
                      deploy_app_route(State, app, repo, ch).response.status
                         # "already_running"

----------------------------------------------------------------------------
StatusTouchesFirst ==
    docker_client =>
        \A app \in Apps :
            Has(active_containers, app) =>
                LET r == get_app_status_route(State, app)
                IN /\ r.response.status = "running"
                   /\ Get(r.st.reg, app).last_accessed = now
                   /\ \A t \in now..(now + IdleMinutes) :
                         app \notin Range(inactive_apps(r.st.reg, t))

PassSelectsOnlyUnrequested ==
    (reaper.pc = "sleeping" /\ reaper' # reaper) =>
        \A k \in 1..Len(reaper'.inactive_apps) :
            LET app == reaper'.inactive_apps[k]
            IN /\ Has(active_containers, app)
               /\ now - Get(active_containers, app).last_accessed > IdleMinutes

(* C28: a status request for a registered app answers from the record      *)
(* with its last_accessed already set to now, which keeps the app out of   *)
(* every scan of the next 15 minutes; and every pass the reaper starts     *)
(* selects only apps whose last access (so their last status request) is   *)
(* more than 15 minutes back.  An app whose status is requested in every   *)
(* 15-minute window is therefore never selected.                           *)
C28_StatusKeepsAlive == [](StatusTouchesFirst) /\ [][PassSelectsOnlyUnrequested]_vars

C28_Witness ==
    /\ now = 2 * TickMinutes
    /\ reaper.pc = "stopping"
    /\ reaper.at = now
    /\ Len(reaper.inactive_apps) = 1
    /\ \E rec \in Records(active_containers) :
          /\ rec.started_at = 0
          /\ rec.last_accessed = TickMinutes
          /\ rec.app_name \notin Range(reaper.inactive_apps)

----------------------------------------------------------------------------
(* A deploy or a stop of app, a request's or the reaper's, is suspended in *)
(* its history call                                                        *)
InProgress(app) ==
    \/ \E p \in pending : p.app_name = app
    \/ reaper.pc = "stopping" /\ reaper.inactive_apps[reaper.i] = app

(* C29: the history starting empty and its store never refusing a write,   *)
(* whenever no deploy and no stop of an app is in progress the history has *)
(* an open entry of the app exactly when the Registry has a record of it,  *)
(* and it never has more than one open entry of an app.                    *)
C29_OpenEntryIffRecord ==
    \A app \in Apps :
        /\ Cardinality(OpenEntries(history, app)) <= 1
        /\ ~InProgress(app) =>
              (OpenEntries(history, app) # {}) = Has(active_containers, app)

----------------------------------------------------------------------------
(* The engine answers every call: each call a deploy or a build makes      *)
(* would end ok                                                            *)
Reachable(ch) ==
    \A o \in {ch.pull, ch.clone, ch.build, ch.run, ch.port} : o.out \in {"ok", "none"}

UnavailableForGood ==
    ~docker_client =>
        /\ active_containers = <<>>
        /\ \A app \in Apps, repo \in Repos :
              /\ \A ch \in AllChoices :
                    LET d == deploy_app_route(State, app, repo, ch)
                    IN /\ d.response = Unavailable
                       /\ d.calls = <<>>
                       /\ d.st.reg = <<>>
              /\ \A b \in BuildChoices :
                    LET r == build_image(State, app, repo, Choice(NotCalled, b, NoRun))
                    IN /\ r.response = Unavailable
                       /\ r.calls = <<>>

NeverProbedAgain == docker_client' = docker_client

(* C30: what initialization decided about the engine is never changed by   *)
(* any step; and once it decided unavailable, the Registry is empty in     *)
(* every state and every deploy and every build fails with the             *)
(* configuration error without calling the engine, whatever the engine     *)
(* would answer by then.                                                   *)
C30_UnavailableIsForGood == [](UnavailableForGood) /\ [][NeverProbedAgain]_vars

C30_Witness ==
    /\ ~docker_client
    /\ now > 0
    /\ \E ch \in DeployBuildChoices :
          /\ Reachable(ch)
          /\ ch.run.out = "ok"
          /\ deploy_app_route(State, "blog", <<"localhost", "img">>, ch).response
                = Unavailable

====
